---- MODULE Spec2Model ----
(***************************************************************************)
(* Model of the translation engine of @safekit/i18n:                       *)
(*   src/src/create-translator.ts  createTranslator / resolveValue /       *)
(*                                 translate  (lines 116-278)              *)
(* JavaScript strings are sequences of one-character strings, JavaScript   *)
(* values are tagged records, and objects are functions from property      *)
(* names to values, read through the prototype chain as the code does.     *)
(***************************************************************************)
EXTENDS Integers, Sequences, FiniteSets, TLC

\* ------------------------------------------------------------------ bounds
\* Longest reference chain (in hops) among the generated mappings.
MaxChain == 12

\* ------------------------------------------------------- program constants
REF_PREFIX == <<"$", "r", "e", "f", ":">>

MAX_REF_DEPTH == 10

\* ------------------------------------------------------ JavaScript values
Undefined == [t |-> "undef", s |-> <<>>]

Null == [t |-> "null", s |-> <<>>]

Str(s) == [t |-> "str", s |-> s]

\* a number, carried with its decimal text
Num(s) == [t |-> "num", s |-> s]

\* a function object (what Object.prototype holds under its property names)
Fn == [t |-> "fn", s |-> <<>>]

\* String(v)
String(v) ==
  CASE v.t = "str" -> v.s
    [] v.t = "num" -> v.s
    [] v.t = "null" -> <<"n", "u", "l", "l">>
    [] v.t = "undef" -> <<"u", "n", "d", "e", "f", "i", "n", "e", "d">>
    [] OTHER -> <<"f", "u", "n", "c", "t", "i", "o", "n">>

\* String.prototype.startsWith
StartsWith(s, p) == Len(s) >= Len(p) /\ SubSeq(s, 1, Len(p)) = p

\* String.prototype.slice(n)
Slice(s, n) == SubSeq(s, n + 1, Len(s))

\* property names every object literal inherits from Object.prototype
ProtoKeys == { <<"t", "o", "S", "t", "r", "i", "n", "g">>,
               <<"c", "o", "n", "s", "t", "r", "u", "c", "t", "o", "r">> }

\* key in obj
In(k, obj) == k \in DOMAIN obj \/ k \in ProtoKeys

\* obj[k]
Get(obj, k) ==
  IF k \in DOMAIN obj THEN obj[k]
  ELSE IF k \in ProtoKeys THEN Fn
  ELSE Undefined

\* truthiness of a configuration flag (unset, true or false)
Truthy(flag) == flag = "true"

\* ------------------------------------------------------------ input data
Digit(d) == <<"0", "1", "2", "3", "4", "5", "6", "7", "8", "9">>[d + 1]

RECURSIVE Digits(_)
Digits(i) == IF i < 10 THEN <<Digit(i)>> ELSE Digits(i \div 10) \o <<Digit(i % 10)>>

\* `key${i}`
Key(i) == <<"k">> \o Digits(i)

\* a key whose text is itself a placeholder
PKey == <<"{", "{", "n", "}", "}">>

\* a key that no mapping holds
ZKey == <<"z", "z">>

ToStringKey == <<"t", "o", "S", "t", "r", "i", "n", "g">>

Ref(k) == Str(REF_PREFIX \o k)

Greeting == <<"H", "{", "{", "n", "}", "}">>

DefaultKey == <<"$", "d", "e", "f", "a", "u", "l", "t", "V", "a", "l", "u", "e">>

NKey == <<"n">>

\* values a generated mapping may give to a key
Literals == { Str(<<"V">>), Str(Key(0)), Str(PKey), Str(Greeting) }

SmallValues ==
  Literals \cup { Ref(Key(0)), Ref(PKey), Ref(<<>>), Ref(ZKey), Ref(ToStringKey), Num(<<"7">>) }

\* every mapping over at most the two keys key0 and "{{n}}"
SmallMappings ==
  UNION { [D -> SmallValues] : D \in SUBSET {Key(0), PKey} }

\* what the last key of a chain may hold: a literal, a broken reference, a
\* non-string, or a reference to any chain key (backwards: a cycle)
Tails ==
  { Str(<<"F">>), Str(Key(0)), Str(Greeting), Ref(<<>>), Ref(ZKey), Num(<<"7">>) }
    \cup { Ref(Key(j)) : j \in 0..MaxChain }

\* key0 -> key1 -> ... -> key<n>, the last key holding tail
Chain(n, tail) ==
  [k \in { Key(i) : i \in 0..n } |->
     IF k = Key(n) THEN tail
     ELSE Ref(Key((CHOOSE i \in 0..n : Key(i) = k) + 1))]

ChainMappings == { Chain(n, tail) : n \in 1..MaxChain, tail \in Tails }

Mappings == SmallMappings \cup ChainMappings

\* TranslatorOptions: each flag left unset or set; resolveRefs also set to false
Configs ==
  [debug : {"unset", "true"}, resolveRefs : {"unset", "true", "false"},
   returnNull : {"unset", "true"}]

\* keys a caller asks for
RequestKeys == { Key(0), PKey, ZKey, ToStringKey }

\* options bags a caller passes; given = FALSE is a call without options
NoOptions == [given |-> FALSE, bag |-> <<>>]

Bag(b) == [given |-> TRUE, bag |-> b]

World == Str(<<"W">>)

DefaultText == Str(<<"D">>)

RequestOptions ==
  { NoOptions,
    Bag(<<>>),
    Bag(NKey :> World),
    Bag(DefaultKey :> DefaultText),
    Bag(NKey :> World @@ DefaultKey :> DefaultText),
    Bag(NKey :> Undefined),
    Bag(NKey :> Num(<<"0">>) @@ DefaultKey :> Undefined) }

\* ------------------------------------------------------------------ state
VARIABLES
  translations,   \* the mapping the translator closes over
  globalOptions,  \* the configuration the translator closes over
  pc,             \* "idle", "resolving" (inside resolveValue) or "done"
  key,            \* translate's key argument
  options,        \* translate's options argument
  rkey,           \* resolveValue's key argument
  originalKey,    \* resolveValue's originalKey argument
  visited,        \* resolveValue's visited argument
  depth,          \* resolveValue's depth argument
  result,         \* what the last finished translate call returned
  warnings,       \* console.warn calls of the current translate call, in order
  namespace,      \* the namespace getFixedT closes over
  suffix,         \* scopedTranslate's key argument; undefined in a direct call
  passed,         \* history: the options object as the caller built it
  earlier,        \* history: finished calls (key, options) and what each gave
  other,          \* the frame of a second translate call on the same translator
  cycleDetection  \* TRUE in the program; FALSE takes the visited check out

vars == <<translations, globalOptions, pc, key, options, rkey, originalKey,
          visited, depth, result, warnings, namespace, suffix,
          passed, earlier, other, cycleDetection>>

\* ----------------------------------------------------------------- logging
\* a logger that ignores the configuration
WarnAlways(kind, a, b) == << [w |-> kind, a |-> a, b |-> b] >>

\* if (globalOptions.debug) console.warn(...)
Warn(kind, a, b) ==
  IF Truthy(globalOptions.debug) THEN << [w |-> kind, a |-> a, b |-> b] >> ELSE <<>>

\* --------------------------------------------------------- resolveValue
\* a resolver that reports the key it stands on instead of the requested one
RootKeyCurrent(k, orig) == k

\* originalKey ?? key
RootKey(k, orig) == IF orig.t \in {"undef", "null"} THEN k ELSE orig.s

\* a depth check against a bound ten times too large
DepthExceededLate(d) == d >= 10 * MAX_REF_DEPTH

\* a depth check against twice the bound
DepthExceededTwice(d) == d >= 2 * MAX_REF_DEPTH

\* depth >= MAX_REF_DEPTH
DepthExceeded(d) == d >= MAX_REF_DEPTH

\* a visited set that never reports a key
SeenNever(vis, refKey) == FALSE

\* visited.has(refKey); with the check taken out, never
Seen(vis, refKey) == cycleDetection /\ refKey \in vis

\* a resolver whose warnings name the requested key instead of the key the
\* failure was found at
resolveValueNamingRoot(k, orig, vis, d) ==
  LET rootKey == RootKey(k, orig)
      value   == Get(translations, k)
      refKey  == Slice(value.s, Len(REF_PREFIX))
      Return(v, w) == [ret |-> TRUE, val |-> v, warn |-> w,
                       k |-> k, orig |-> orig, vis |-> vis, d |-> d]
  IN  IF DepthExceeded(d) THEN Return(rootKey, Warn("maxDepth", rootKey, <<>>))
      ELSE IF value.t # "str" THEN Return(rootKey, <<>>)
      ELSE IF ~StartsWith(value.s, REF_PREFIX) THEN Return(value.s, <<>>)
      ELSE IF refKey = <<>> THEN Return(rootKey, Warn("emptyTarget", rootKey, <<>>))
      ELSE IF Seen(vis, refKey) THEN Return(rootKey, Warn("circular", rootKey, refKey))
      ELSE IF ~In(refKey, translations)
        THEN Return(rootKey, Warn("targetNotFound", refKey, rootKey))
      ELSE [ret |-> FALSE, val |-> <<>>, warn |-> <<>>,
            k |-> refKey, orig |-> Str(rootKey), vis |-> vis \cup {k}, d |-> d + 1]

\* One invocation of resolveValue. ret = TRUE: it returns val; ret = FALSE:
\* it calls itself with the arguments (k, orig, vis, d) and returns that
\* call's value unchanged.
resolveValue(k, orig, vis, d) ==
  LET rootKey == RootKey(k, orig)
      value   == Get(translations, k)
      refKey  == Slice(value.s, Len(REF_PREFIX))
      Return(v, w) == [ret |-> TRUE, val |-> v, warn |-> w,
                       k |-> k, orig |-> orig, vis |-> vis, d |-> d]
  IN  IF DepthExceeded(d) THEN Return(rootKey, Warn("maxDepth", k, <<>>))
      ELSE IF value.t # "str" THEN Return(rootKey, <<>>)
      ELSE IF ~StartsWith(value.s, REF_PREFIX) THEN Return(value.s, <<>>)
      ELSE IF refKey = <<>> THEN Return(rootKey, Warn("emptyTarget", k, <<>>))
      ELSE IF Seen(vis, refKey) THEN Return(rootKey, Warn("circular", k, refKey))
      ELSE IF ~In(refKey, translations)
        THEN Return(rootKey, Warn("targetNotFound", refKey, k))
      ELSE [ret |-> FALSE, val |-> <<>>, warn |-> <<>>,
            k |-> refKey, orig |-> Str(rootKey), vis |-> vis \cup {k}, d |-> d + 1]

\* ---------------------------------------------------------- interpolation
\* \w of the pattern /\{\{(\w+)\}\}/g, over the characters the inputs use
WordChars ==
  { "n", "k", "z", "e", "y", "H", "V", "F", "W", "D", "t", "o", "S", "r", "i", "g",
    "m", "X", "u", "a", "0", "1", "2", "3", "4", "5", "6", "7", "8", "9", "_" }

\* the last index of the longest run of word characters that starts at i
\* (i - 1 when s[i] is no word character)
RECURSIVE WordEnd(_, _)
WordEnd(s, i) ==
  IF i <= Len(s) /\ s[i] \in WordChars THEN WordEnd(s, i + 1) ELSE i - 1

\* the pattern matches at i: "{{", one or more word characters, "}}"
MatchAt(s, i) ==
  /\ i + 1 <= Len(s) /\ s[i] = "{" /\ s[i + 1] = "{"
  /\ LET e == WordEnd(s, i + 2)
     IN  /\ e >= i + 2
         /\ e + 2 <= Len(s) /\ s[e + 1] = "}" /\ s[e + 2] = "}"

\* the replacer callback of value.replace: the text put in place of
\* {{paramKey}} and the warning it logs
Replacer(paramKey, interpolationValues) ==
  LET literal == <<"{", "{">> \o paramKey \o <<"}", "}">>
  IN  IF In(paramKey, interpolationValues)
        THEN LET replacement == Get(interpolationValues, paramKey)
             IN  IF replacement.t # "undef"
                   THEN [out |-> String(replacement), warn |-> <<>>]
                   ELSE [out |-> literal, warn |-> Warn("undefinedValue", paramKey, <<>>)]
        ELSE [out |-> literal, warn |-> Warn("notInOptions", paramKey, <<>>)]

\* a replace that scans the text it has just put in again
RECURSIVE ReplaceNested(_, _, _)
ReplaceNested(s, i, interpolationValues) ==
  IF i > Len(s) THEN [out |-> <<>>, warn |-> <<>>]
  ELSE IF MatchAt(s, i)
    THEN LET e == WordEnd(s, i + 2)
             r == Replacer(SubSeq(s, i + 2, e), interpolationValues)
         IN  IF r.out = SubSeq(s, i, e + 2)
               THEN LET rest == ReplaceNested(s, e + 3, interpolationValues)
                    IN  [out |-> r.out \o rest.out, warn |-> r.warn \o rest.warn]
               ELSE ReplaceNested(SubSeq(s, 1, i - 1) \o r.out \o SubSeq(s, e + 3, Len(s)),
                                  i, interpolationValues)
    ELSE LET rest == ReplaceNested(s, i + 1, interpolationValues)
         IN  [out |-> <<s[i]>> \o rest.out, warn |-> rest.warn]

\* value.replace(/\{\{(\w+)\}\}/g, replacer), scanning from index i: every
\* match is replaced once and the scan goes on after the match
RECURSIVE Replace(_, _, _)
Replace(s, i, interpolationValues) ==
  IF i > Len(s) THEN [out |-> <<>>, warn |-> <<>>]
  ELSE IF MatchAt(s, i)
    THEN LET e    == WordEnd(s, i + 2)
             r    == Replacer(SubSeq(s, i + 2, e), interpolationValues)
             rest == Replace(s, e + 3, interpolationValues)
         IN  [out |-> r.out \o rest.out, warn |-> r.warn \o rest.warn]
    ELSE LET rest == Replace(s, i + 1, interpolationValues)
         IN  [out |-> <<s[i]>> \o rest.out, warn |-> rest.warn]

\* const { ...options }; delete interpolationValues.$defaultValue
WithoutDefault(bag) == [n \in DOMAIN bag \ {DefaultKey} |-> bag[n]]

\* --------------------------------------------------------------- translate
\* a translate that deletes $defaultValue from the object it was passed
OptionsAfterDelete(o, value) ==
  IF value.t = "str" /\ o.given /\ DOMAIN o.bag # {}
    THEN [given |-> TRUE, bag |-> WithoutDefault(o.bag)]
    ELSE o

\* the caller's options object when translate returns: the spread copy
\* interpolationValues takes the delete, the object itself is only read
OptionsAfter(o, value) == o

\* a translate that takes whatever the resolver returns as the value
FromResolvedAlways(resolved, k) == Str(resolved)

\* value = resolved === key ? undefined : resolved
FromResolved(resolved, k) == IF resolved = k THEN Undefined ELSE Str(resolved)

\* options?.$defaultValue
DefaultValue(o) == IF o.given THEN Get(o.bag, DefaultKey) ELSE Undefined

\* the interpolation branch of translate, for a string value
Interpolate(value, o) ==
  IF o.given /\ DOMAIN o.bag # {} /\ DOMAIN WithoutDefault(o.bag) # {}
    THEN LET r == Replace(value, 1, WithoutDefault(o.bag))
         IN  [out |-> Str(r.out), warn |-> r.warn]
    ELSE [out |-> Str(value), warn |-> <<>>]

\* a not-found branch that looks at returnNull before the default value
NotFoundNullFirst(k, o) ==
  IF Truthy(globalOptions.returnNull)
    THEN [out |-> Null, warn |-> Warn("returningNull", k, <<>>)]
  ELSE IF DefaultValue(o).t # "undef"
    THEN [out |-> DefaultValue(o), warn |-> Warn("usingDefault", k, <<>>)]
  ELSE [out |-> Str(k), warn |-> Warn("usingKey", k, <<>>)]

\* a not-found branch that sends the fallback text through interpolation
NotFoundInterpolating(k, o) ==
  LET f == IF DefaultValue(o).t # "undef"
             THEN [out |-> DefaultValue(o), warn |-> Warn("usingDefault", k, <<>>)]
           ELSE IF Truthy(globalOptions.returnNull)
             THEN [out |-> Null, warn |-> Warn("returningNull", k, <<>>)]
           ELSE [out |-> Str(k), warn |-> Warn("usingKey", k, <<>>)]
  IN  IF f.out.t = "str"
        THEN [out |-> Interpolate(f.out.s, o).out,
              warn |-> f.warn \o Interpolate(f.out.s, o).warn]
        ELSE f

\* the not-found branch of translate
NotFound(k, o) ==
  IF DefaultValue(o).t # "undef"
    THEN [out |-> DefaultValue(o), warn |-> Warn("usingDefault", k, <<>>)]
  ELSE IF Truthy(globalOptions.returnNull)
    THEN [out |-> Null, warn |-> Warn("returningNull", k, <<>>)]
  ELSE [out |-> Str(k), warn |-> Warn("usingKey", k, <<>>)]

\* a translate that prefers a supplied default value to the value found
FinishDefaultFirst(k, o, value) ==
  IF value.t # "str" \/ DefaultValue(o).t # "undef"
    THEN NotFound(k, o)
    ELSE Interpolate(value.s, o)

\* translate from "If no translation found" to its return, for the value
\* the lookup and the resolution left
Finish(k, o, value) ==
  IF value.t # "str" THEN NotFound(k, o) ELSE Interpolate(value.s, o)

\* a translate that resolves references whatever the configuration says
NeedsResolveAlways(value) == value.t = "str" /\ StartsWith(value.s, REF_PREFIX)

\* translate enters resolveValue for this value
NeedsResolve(value) ==
  Truthy(globalOptions.resolveRefs) /\ value.t = "str" /\ StartsWith(value.s, REF_PREFIX)

\* resolveValue(k, orig, vis, d) run to its return: the value returned and
\* the warnings logged on the way
RECURSIVE RunResolve(_, _, _, _)
RunResolve(k, orig, vis, d) ==
  LET r == resolveValue(k, orig, vis, d)
  IN  IF r.ret THEN [val |-> r.val, warn |-> r.warn]
      ELSE LET rest == RunResolve(r.k, r.orig, r.vis, r.d)
           IN  [val |-> rest.val, warn |-> r.warn \o rest.warn]

\* translate(k, o) as a function: what the call returns and what it logs
translate(k, o) ==
  LET value == Get(translations, k)
  IN  IF NeedsResolve(value)
        THEN LET r == RunResolve(k, Undefined, {}, 0)
                 f == Finish(k, o, FromResolved(r.val, k))
             IN  [out |-> f.out, warn |-> r.warn \o f.warn]
        ELSE Finish(k, o, value)

\* the frame of a call that has not been made
IdleFrame ==
  [pc |-> "idle", key |-> <<>>, options |-> NoOptions, rkey |-> <<>>,
   originalKey |-> Undefined, visited |-> {}, depth |-> 0,
   result |-> Undefined, warnings |-> <<>>]

\* one caller, no call made yet, the translator as the source has it
OneCaller ==
  /\ passed = NoOptions
  /\ earlier = <<>>
  /\ other = IdleFrame
  /\ cycleDetection = TRUE

Init ==
  /\ translations \in Mappings
  /\ globalOptions \in Configs
  /\ pc = "idle"
  /\ key = <<>>
  /\ options = NoOptions
  /\ rkey = <<>>
  /\ originalKey = Undefined
  /\ visited = {}
  /\ depth = 0
  /\ result = Undefined
  /\ warnings = <<>>
  /\ namespace = <<>>
  /\ suffix = Undefined
  /\ OneCaller

\* a translator whose visited set outlives the call: a resolution starts
\* with the key of the call before already in it
translatorSharedVisited(k, o) ==
  /\ pc \in {"idle", "done"}
  /\ key' = k
  /\ passed' = o
  /\ LET value == Get(translations, k)
     IN  IF NeedsResolve(value)
           THEN /\ pc' = "resolving"
                /\ options' = o
                /\ rkey' = k
                /\ originalKey' = Undefined
                /\ visited' = IF pc = "done" THEN {key} ELSE {}
                /\ depth' = 0
                /\ result' = Undefined
                /\ warnings' = <<>>
           ELSE /\ pc' = "done"
                /\ options' = OptionsAfter(o, value)
                /\ rkey' = <<>>
                /\ originalKey' = Undefined
                /\ visited' = {}
                /\ depth' = 0
                /\ result' = Finish(k, o, value).out
                /\ warnings' = Finish(k, o, value).warn
  /\ UNCHANGED <<translations, globalOptions, namespace, other, cycleDetection>>

\* the body of translate(k, o) up to its return or up to its call of
\* resolveValue(key)
translator(k, o) ==
  /\ pc \in {"idle", "done"}
  /\ key' = k
  /\ passed' = o
  /\ LET value == Get(translations, k)
     IN  IF NeedsResolve(value)
           THEN /\ pc' = "resolving"
                /\ options' = o
                /\ rkey' = k
                /\ originalKey' = Undefined
                /\ visited' = {}
                /\ depth' = 0
                /\ result' = Undefined
                /\ warnings' = <<>>
           ELSE /\ pc' = "done"
                /\ options' = OptionsAfter(o, value)
                /\ rkey' = <<>>
                /\ originalKey' = Undefined
                /\ visited' = {}
                /\ depth' = 0
                /\ result' = Finish(k, o, value).out
                /\ warnings' = Finish(k, o, value).warn
  /\ UNCHANGED <<translations, globalOptions, namespace, other, cycleDetection>>

\* a caller's translate(k, o)
Translate(k, o) ==
  /\ translator(k, o)
  /\ suffix' = Undefined
  /\ UNCHANGED earlier

\* a scoper that glues the suffix to the namespace without the dot
FullKeyNoDot(ns, s) == ns \o s

\* `${namespace}.${key}`
FullKey(ns, s) == ns \o <<".">> \o s

\* scopedTranslate(s, o): a translator over the same mapping and
\* configuration is created and called with the full key
ScopedTranslate(s, o) ==
  /\ translator(FullKey(namespace, s), o)
  /\ suffix' = Str(s)
  /\ UNCHANGED earlier

\* a recursion that does not hand its visited set on: the callee starts
\* with a new, empty one
ResolveRecurseNewSet ==
  /\ pc = "resolving"
  /\ LET r == resolveValue(rkey, originalKey, visited, depth)
     IN  /\ ~r.ret
         /\ rkey' = r.k
         /\ originalKey' = r.orig
         /\ visited' = {}
         /\ depth' = r.d
         /\ warnings' = warnings \o r.warn
  /\ UNCHANGED <<translations, globalOptions, pc, key, options, result,
                 namespace, suffix, passed, earlier, other, cycleDetection>>

\* one invocation of resolveValue that calls itself
ResolveRecurse ==
  /\ pc = "resolving"
  /\ LET r == resolveValue(rkey, originalKey, visited, depth)
     IN  /\ ~r.ret
         /\ rkey' = r.k
         /\ originalKey' = r.orig
         /\ visited' = r.vis
         /\ depth' = r.d
         /\ warnings' = warnings \o r.warn
  /\ UNCHANGED <<translations, globalOptions, pc, key, options, result,
                 namespace, suffix, passed, earlier, other, cycleDetection>>

\* a resolver that stores what it resolved under the requested key
ResolveReturnCaching ==
  /\ pc = "resolving"
  /\ LET r == resolveValue(rkey, originalKey, visited, depth)
         f == Finish(key, options, FromResolved(r.val, key))
     IN  /\ r.ret
         /\ result' = f.out
         /\ warnings' = warnings \o r.warn \o f.warn
         /\ options' = OptionsAfter(options, FromResolved(r.val, key))
         /\ translations' = [translations EXCEPT ![key] = Str(r.val)]
  /\ pc' = "done"
  /\ rkey' = <<>>
  /\ originalKey' = Undefined
  /\ visited' = {}
  /\ depth' = 0
  /\ UNCHANGED <<globalOptions, key, namespace, suffix,
                 passed, earlier, other, cycleDetection>>

\* the invocation of resolveValue that returns: the value goes back through
\* the pending calls unchanged, and translate runs to its return
ResolveReturn ==
  /\ pc = "resolving"
  /\ LET r == resolveValue(rkey, originalKey, visited, depth)
         f == Finish(key, options, FromResolved(r.val, key))
     IN  /\ r.ret
         /\ result' = f.out
         /\ warnings' = warnings \o r.warn \o f.warn
         /\ options' = OptionsAfter(options, FromResolved(r.val, key))
  /\ pc' = "done"
  /\ rkey' = <<>>
  /\ originalKey' = Undefined
  /\ visited' = {}
  /\ depth' = 0
  /\ UNCHANGED <<translations, globalOptions, key, namespace, suffix,
                 passed, earlier, other, cycleDetection>>

Next ==
  \/ \E k \in RequestKeys, o \in RequestOptions : Translate(k, o)
  \/ ResolveRecurse
  \/ ResolveReturn

Spec == Init /\ [][Next]_vars

TypeOK ==
  /\ pc \in {"idle", "resolving", "done"}
  /\ depth \in 0..MAX_REF_DEPTH
  /\ result.t \in {"undef", "null", "str", "num", "fn"}

\* ------------------------------------------------- reading of the mapping
\* The chain a key starts, read off the mapping alone (not by resolveValue).

\* k is a key of the mapping whose value is a reference string
IsRefKey(k) ==
  /\ k \in DOMAIN translations
  /\ translations[k].t = "str"
  /\ StartsWith(translations[k].s, REF_PREFIX)

\* the target of the reference k holds
TargetOf(k) == Slice(translations[k].s, Len(REF_PREFIX))

\* k is a key of the mapping whose value is a string that is no reference
IsLiteralKey(k) ==
  /\ k \in DOMAIN translations
  /\ translations[k].t = "str"
  /\ ~StartsWith(translations[k].s, REF_PREFIX)

\* the number of hops after which the chain from k reaches a non-reference
\* string, every target on the way being a key of the mapping; -1 when it
\* reaches none within n hops
RECURSIVE HopsToLiteral(_, _)
HopsToLiteral(k, n) ==
  IF IsLiteralKey(k) THEN 0
  ELSE IF n > 0 /\ IsRefKey(k) /\ TargetOf(k) \in DOMAIN translations
    THEN LET h == HopsToLiteral(TargetOf(k), n - 1)
         IN  IF h = -1 THEN -1 ELSE h + 1
  ELSE -1

\* the key reached from k after n hops
RECURSIVE KeyAfter(_, _)
KeyAfter(k, n) == IF n = 0 THEN k ELSE KeyAfter(TargetOf(k), n - 1)

\* the literal at the end of the chain from k, h hops away
LiteralAfter(k, h) == translations[KeyAfter(k, h)].s

\* the chain from k makes at least n hops, each to a key of the mapping
RECURSIVE MakesHops(_, _)
MakesHops(k, n) ==
  \/ n = 0
  \/ /\ IsRefKey(k)
     /\ TargetOf(k) \in DOMAIN translations
     /\ MakesHops(TargetOf(k), n - 1)

\* the chain from k never ends: it makes more hops than the mapping has keys
EntersCycle(k) == MakesHops(k, Cardinality(DOMAIN translations) + 1)

\* some hop of the chain from k, after at most n sound hops, has an empty
\* target or a target that is no key of the mapping
RECURSIVE HasBrokenHop(_, _)
HasBrokenHop(k, n) ==
  /\ IsRefKey(k)
  /\ \/ TargetOf(k) = <<>>
     \/ TargetOf(k) \notin DOMAIN translations
     \/ n > 0 /\ HasBrokenHop(TargetOf(k), n - 1)

\* the text holds "{{" somewhere
HasBraces(s) == \E i \in 1..(Len(s) - 1) : s[i] = "{" /\ s[i + 1] = "{"

HasWarning(kind) == \E i \in 1..Len(warnings) : warnings[i].w = kind

\* a finished call of a translator that resolves references
DoneResolving == pc = "done" /\ Truthy(globalOptions.resolveRefs)

\* no default value in the options and no null-on-missing configured
DefaultFallback ==
  /\ ~Truthy(globalOptions.returnNull)
  /\ ~(options.given /\ DefaultKey \in DOMAIN options.bag
         /\ options.bag[DefaultKey].t # "undef")

\* ------------------------------------------------------------------ claims

\* C1: with reference resolution enabled, translate(key) of a key whose chain
\* is acyclic, has every target present and ends at a non-reference string
\* within the depth bound returns the literal at the end of the chain.
C1_ChainLiteral ==
  (DoneResolving /\ ~options.given /\ IsRefKey(key)
     /\ HopsToLiteral(key, MAX_REF_DEPTH - 1) # -1)
  => result = Str(LiteralAfter(key, HopsToLiteral(key, MAX_REF_DEPTH - 1)))

\* C2: with reference resolution enabled, when the chain from the key reaches
\* a literal v within the depth bound, translate returns v interpolated and
\* never the default value, null or the not-found fallback, also when the
\* text of v equals the text of the key.
C2_SuccessIsNotFailure ==
  (DoneResolving /\ IsRefKey(key) /\ HopsToLiteral(key, MAX_REF_DEPTH - 1) # -1)
  => /\ result = Interpolate(LiteralAfter(key, HopsToLiteral(key, MAX_REF_DEPTH - 1)),
                             options).out
     /\ ~HasWarning("usingDefault")
     /\ ~HasWarning("returningNull")
     /\ ~HasWarning("usingKey")

\* C3: with reference resolution enabled and the default fallback, translate
\* of a key whose chain enters a cycle (a self-reference, or a cycle that
\* does not hold the key, included) returns the key text.
C3_CycleReturnsKey ==
  (DoneResolving /\ DefaultFallback /\ EntersCycle(key)) => result = Str(key)

C3_Witness ==
  /\ DoneResolving /\ DefaultFallback
  /\ translations = Chain(3, Ref(Key(2)))
  /\ key = Key(0)
  /\ EntersCycle(key)
  /\ result = Str(Key(0))

\* C4: with reference resolution enabled and the default fallback, when a
\* hop of the chain from the key has an empty target or a target absent from
\* the mapping, translate returns the requested key text, however many hops
\* come before the broken one.
C4_BrokenReturnsKey ==
  (DoneResolving /\ DefaultFallback
     /\ HasBrokenHop(key, Cardinality(DOMAIN translations)))
  => result = Str(key)

C4_Witness ==
  /\ DoneResolving /\ DefaultFallback
  /\ translations = Chain(4, Ref(ZKey))
  /\ key = Key(0)
  /\ HasBrokenHop(key, 4) /\ ~HasBrokenHop(key, 3)
  /\ result = Str(Key(0))

\* C5: with reference resolution enabled, a chain longer than 10 hops fails:
\* under the default fallback translate returns the requested key text, not
\* the literal beyond the bound.
C5_LongChainFails ==
  (DoneResolving /\ DefaultFallback /\ MakesHops(key, MAX_REF_DEPTH + 1))
  => result = Str(key)

C5_Witness ==
  /\ DoneResolving /\ DefaultFallback
  /\ translations = Chain(MAX_REF_DEPTH + 2, Str(<<"F">>))
  /\ key = Key(0)
  /\ HopsToLiteral(key, MaxChain) = MAX_REF_DEPTH + 2
  /\ result = Str(Key(0))

\* C6: an acyclic chain with every target present that reaches a literal in
\* n hops, 1 <= n <= 10, resolves to that literal and logs no depth-exceeded
\* warning.
C6_TenHopsResolve ==
  (DoneResolving /\ IsRefKey(key) /\ HopsToLiteral(key, MAX_REF_DEPTH) # -1)
  => /\ ~HasWarning("maxDepth")
     /\ (~options.given /\ LiteralAfter(key, HopsToLiteral(key, MAX_REF_DEPTH)) # key)
          => result = Str(LiteralAfter(key, HopsToLiteral(key, MAX_REF_DEPTH)))

\* C7: with reference resolution off (false or unset) the resolver is never
\* entered, and translate of a key whose value starts with "$ref:" returns
\* that value as a literal, whatever its target is.
C7_RefsOffLiteral ==
  ~Truthy(globalOptions.resolveRefs)
  => /\ pc # "resolving"
     /\ (pc = "done" /\ IsRefKey(key) /\ ~HasBraces(translations[key].s))
          => result = translations[key]

C7_Witness ==
  /\ pc = "done"
  /\ globalOptions.resolveRefs = "false"
  /\ translations = Chain(2, Ref(Key(0)))
  /\ key = Key(0)
  /\ result = Ref(Key(1))

\* C8: resolution comes before interpolation and does not interpolate: for a
\* key whose chain resolves to a literal with placeholders, translate(key,
\* options) is the interpolation of that literal with the options.
C8_InterpolateAfterResolve ==
  (DoneResolving /\ IsRefKey(key) /\ HopsToLiteral(key, MAX_REF_DEPTH - 1) # -1
     /\ HasBraces(LiteralAfter(key, HopsToLiteral(key, MAX_REF_DEPTH - 1)))
     /\ options.given /\ NKey \in DOMAIN options.bag)
  => result = Str(Replace(LiteralAfter(key, HopsToLiteral(key, MAX_REF_DEPTH - 1)), 1,
                          WithoutDefault(options.bag)).out)

\* C9: translate of a key present with a non-reference string value without
\* placeholders returns exactly that value, with reference resolution on or
\* off and whatever the options.
C9_PlainLiteral ==
  (pc = "done" /\ IsLiteralKey(key) /\ ~HasBraces(translations[key].s))
  => result = translations[key]

C9_Witness ==
  /\ DoneResolving
  /\ IsLiteralKey(key) /\ ~HasBraces(translations[key].s)
  /\ translations[key] = Str(key)
  /\ options = Bag(NKey :> World @@ DefaultKey :> DefaultText)
  /\ result = Str(key)

\* C10: for a key absent from the mapping or mapped to a non-string,
\* translate returns the default value when the options supply one, else
\* null when null-on-missing is configured, else the key text; a supplied
\* default value wins over null-on-missing.
C10_FallbackPriority ==
  (pc = "done" /\ (key \notin DOMAIN translations \/ translations[key].t # "str"))
  => result =
       IF options.given /\ DefaultKey \in DOMAIN options.bag
            /\ options.bag[DefaultKey].t # "undef"
         THEN options.bag[DefaultKey]
       ELSE IF globalOptions.returnNull = "true" THEN Null
       ELSE Str(key)

C10_Witness ==
  /\ pc = "done"
  /\ key \notin DOMAIN translations
  /\ globalOptions.returnNull = "true"
  /\ options = Bag(DefaultKey :> DefaultText)
  /\ result = DefaultText

\* ------------------------------------------- reading of a call's options
\* the options supply a default value
DefaultSupplied ==
  options.given /\ DefaultKey \in DOMAIN options.bag /\ options.bag[DefaultKey].t # "undef"

\* the bindings the options offer to placeholders
Bindings == [n \in DOMAIN options.bag \ {DefaultKey} |-> options.bag[n]]

\* the text of the placeholder of a name
Placeholder(name) == <<"{", "{">> \o name \o <<"}", "}">>

\* the placeholder names the inputs use
PlaceholderNames == { NKey, <<"m">>, <<"t", "o", "S", "t", "r", "i", "n", "g">> }

\* the placeholder of this name opens the text s
Opens(name, s) == StartsWith(s, Placeholder(name))

\* What interpolation is to produce from s, read off the bindings alone:
\* every placeholder of a name bound to a defined value becomes that value as
\* text, every other placeholder and every other character stays.
RECURSIVE Subst(_, _)
Subst(s, b) ==
  IF s = <<>> THEN <<>>
  ELSE IF \E name \in PlaceholderNames : Opens(name, s)
    THEN LET name == CHOOSE nm \in PlaceholderNames : Opens(nm, s)
             text == IF name \in DOMAIN b /\ b[name].t # "undef"
                       THEN String(b[name]) ELSE Placeholder(name)
         IN  text \o Subst(Slice(s, Len(Placeholder(name))), b)
  ELSE <<s[1]>> \o Subst(Slice(s, 1), b)

\* the chain from the key fails: a hop is broken, or the chain enters a
\* cycle, or it is longer than the depth bound
ChainFails(k) ==
  \/ HasBrokenHop(k, Cardinality(DOMAIN translations))
  \/ EntersCycle(k)
  \/ MakesHops(k, MAX_REF_DEPTH + 1)

\* what the fallback policy gives for a missing key of this text
MissingResult(k) ==
  IF DefaultSupplied THEN options.bag[DefaultKey]
  ELSE IF Truthy(globalOptions.returnNull) THEN Null
  ELSE Str(k)

\* C11: a failed resolution (empty target, absent target, cycle, depth
\* exceeded) is recovered like a missing key: translate returns the supplied
\* default value, else null under null-on-missing, else the key text.
C11_FailureLikeMissing ==
  (DoneResolving /\ IsRefKey(key) /\ ChainFails(key)) => result = MissingResult(key)

C11_Witness ==
  /\ DoneResolving
  /\ translations = Chain(MaxChain, Str(<<"F">>))
  /\ key = Key(0)
  /\ ChainFails(key)
  /\ DefaultSupplied
  /\ result = DefaultText

\* C12: translate returns a string, never undefined; it returns null only
\* when null-on-missing is configured, no default value is supplied, and the
\* key is missing or its resolution failed.
C12_StringOrConfiguredNull ==
  pc = "done"
  => /\ result.t \in {"str", "null"}
     /\ result.t = "null"
          => /\ Truthy(globalOptions.returnNull)
             /\ ~DefaultSupplied
             /\ \/ key \notin DOMAIN translations
                \/ translations[key].t # "str"
                \/ IsRefKey(key) /\ HopsToLiteral(key, MAX_REF_DEPTH - 1) = -1

\* C13: the default value is used only on the not-found branch: for a key
\* present with a string that is a literal or resolves successfully,
\* translate(key, {default value, ...}) returns the interpolated mapped value,
\* never the default value.
C13_DefaultOnlyWhenMissing ==
  (pc = "done" /\ DefaultSupplied
     /\ \/ IsLiteralKey(key)
        \/ /\ Truthy(globalOptions.resolveRefs) /\ IsRefKey(key)
           /\ HopsToLiteral(key, MAX_REF_DEPTH - 1) # -1)
  => result = Str(Subst(LiteralAfter(key, HopsToLiteral(key, MAX_REF_DEPTH - 1)), Bindings))

\* C17: a translator created with no configuration logs warnings: translate
\* of a key absent from the mapping logs "not found, using key as value".
C17_WarnsByDefault ==
  (pc = "done"
     /\ globalOptions = [debug |-> "unset", resolveRefs |-> "unset", returnNull |-> "unset"]
     /\ key \notin DOMAIN translations
     /\ ~DefaultSupplied)
  => HasWarning("usingKey")

\* ------------------------------------------------ interpolation inputs
MKey == <<"m">>

\* values with placeholders: one, one twice, two, an inherited name, with
\* text around, inside further braces, and one left open
Templates ==
  { PKey,
    PKey \o <<"-">> \o PKey,
    PKey \o <<"{", "{", "m", "}", "}">>,
    <<"{", "{">> \o ToStringKey \o <<"}", "}">>,
    Greeting,
    <<"{">> \o PKey \o <<"}">>,
    <<"{", "{", "n", "}">> }

\* a key holding a template, asked for directly or through one reference
InterpMappings ==
  { Key(0) :> Str(t) : t \in Templates }
    \cup { Key(0) :> Ref(Key(1)) @@ Key(1) :> Str(t) : t \in Templates }

InterpKeys == { Key(0), ZKey }

\* a value that is itself the text of a placeholder
NestedValue == Str(<<"{", "{", "m", "}", "}">>)

InterpOptions ==
  { NoOptions,
    Bag(<<>>),
    Bag(DefaultKey :> DefaultText),
    Bag(NKey :> World),
    Bag(NKey :> Num(<<"0">>)),
    Bag(NKey :> Str(<<>>)),
    Bag(NKey :> Undefined),
    Bag(MKey :> Str(<<"X">>)),
    Bag(NKey :> World @@ MKey :> Str(<<"X">>)),
    Bag(NKey :> NestedValue @@ MKey :> Str(<<"X">>)),
    Bag(NKey :> World @@ DefaultKey :> DefaultText) }

InitInterp ==
  /\ translations \in InterpMappings
  /\ globalOptions \in Configs
  /\ pc = "idle"
  /\ key = <<>>
  /\ options = NoOptions
  /\ rkey = <<>>
  /\ originalKey = Undefined
  /\ visited = {}
  /\ depth = 0
  /\ result = Undefined
  /\ warnings = <<>>
  /\ namespace = <<>>
  /\ suffix = Undefined
  /\ OneCaller

NextInterp ==
  \/ \E k \in InterpKeys, o \in InterpOptions : Translate(k, o)
  \/ ResolveRecurse
  \/ ResolveReturn

SpecInterp == InitInterp /\ [][NextInterp]_vars

\* the placeholder of this name occurs in s
Occurs(name, s) == \E i \in 0..Len(s) : Opens(name, Slice(s, i))

\* the string the finished call interpolates: the literal the key holds, or
\* the literal its reference chain resolved to
Interpolated ==
  IF IsLiteralKey(key) THEN translations[key].s
  ELSE LiteralAfter(key, HopsToLiteral(key, MAX_REF_DEPTH - 1))

\* the finished call found a string to interpolate
FoundString ==
  /\ pc = "done"
  /\ \/ IsLiteralKey(key)
     \/ /\ Truthy(globalOptions.resolveRefs) /\ IsRefKey(key)
        /\ HopsToLiteral(key, MAX_REF_DEPTH - 1) # -1
        /\ LiteralAfter(key, HopsToLiteral(key, MAX_REF_DEPTH - 1)) # key

\* C14: interpolation replaces every occurrence of every placeholder whose
\* name the options bind to a defined value (0 and the empty string
\* included) by that value as text, and leaves every placeholder whose name
\* is absent from the options or bound to undefined as it is.
C14_InterpolationByBinding ==
  FoundString => result = Str(Subst(Interpolated, Bindings))

\* C15: with warnings enabled, for every placeholder of the value whose name
\* is absent from the options translate logs "not found in options" naming
\* it and leaves it literally, for every options bag, also when no options
\* are passed or they hold only the default value.
C15_WarnsUnboundPlaceholder ==
  (FoundString /\ Truthy(globalOptions.debug))
  => \A name \in PlaceholderNames :
       (Occurs(name, Interpolated) /\ name \notin DOMAIN Bindings)
       => /\ \E i \in 1..Len(warnings) :
               warnings[i].w = "notInOptions" /\ warnings[i].a = name
          /\ Occurs(name, result.s)

\* C16: interpolation is a single pass: the text put in for a placeholder is
\* not scanned again, so an option value that is itself {{m}} stays in the
\* result even when m is bound.
C16_SinglePass ==
  (FoundString /\ NKey \in DOMAIN Bindings /\ Bindings[NKey] = NestedValue
     /\ MKey \in DOMAIN Bindings /\ Bindings[MKey].t = "str"
     /\ ~Occurs(ToStringKey, Interpolated))
  => result = Str(Subst(Interpolated, Bindings))

C16_Witness ==
  /\ FoundString
  /\ Interpolated = PKey \o Placeholder(MKey)
  /\ options = Bag(NKey :> NestedValue @@ MKey :> Str(<<"X">>))
  /\ result = Str(Placeholder(MKey) \o <<"X">>)

\* ------------------------------------------------------ namespace scoper
UKey == <<"u">>

AKey == <<"a">>

GKey == <<"g">>

\* what "u.a" may hold
ScopedValues ==
  { Str(<<"V">>), Str(Greeting), Ref(GKey), Ref(UKey \o <<".">> \o GKey),
    Ref(UKey \o <<".">> \o AKey), Ref(<<>>), Ref(ZKey) }

\* Mappings over the keys "u.a", "g" and "u.g": a key of the namespace u that
\* may refer to a key outside the namespace whose name is also a suffix.
ScopedSmall ==
  { a @@ g @@ ug :
      a  \in {<<>>} \cup { (UKey \o <<".">> \o AKey) :> v : v \in ScopedValues },
      g  \in {<<>>} \cup { GKey :> v : v \in {Str(<<"F">>), Ref(UKey \o <<".">> \o AKey)} },
      ug \in {<<>>, (UKey \o <<".">> \o GKey) :> Str(<<"X">>)} }

\* u.key0 -> u.key1 -> ... -> u.key<n>, the last key holding tail
ScopedChain(n, tail) ==
  [k \in { UKey \o <<".">> \o Key(i) : i \in 0..n } |->
     IF k = UKey \o <<".">> \o Key(n) THEN tail
     ELSE Ref(UKey \o <<".">> \o
              Key((CHOOSE i \in 0..n : UKey \o <<".">> \o Key(i) = k) + 1))]

ScopedMappings ==
  ScopedSmall \cup { ScopedChain(n, Str(<<"F">>)) : n \in (MAX_REF_DEPTH - 1)..MaxChain }

\* keys asked of the translator, and suffixes asked of the scoper
ScopedKeys == { UKey \o <<".">> \o AKey, GKey, UKey \o <<".">> \o ZKey }

Suffixes == { AKey, GKey, ZKey, Key(0) }

InitScoped ==
  /\ translations \in ScopedMappings
  /\ globalOptions \in Configs
  /\ pc = "idle"
  /\ key = <<>>
  /\ options = NoOptions
  /\ rkey = <<>>
  /\ originalKey = Undefined
  /\ visited = {}
  /\ depth = 0
  /\ result = Undefined
  /\ warnings = <<>>
  /\ namespace = UKey
  /\ suffix = Undefined
  /\ OneCaller

NextScoped ==
  \/ \E k \in ScopedKeys, o \in RequestOptions : Translate(k, o)
  \/ \E s \in Suffixes, o \in RequestOptions : ScopedTranslate(s, o)
  \/ ResolveRecurse
  \/ ResolveReturn

SpecScoped == InitScoped /\ [][NextScoped]_vars

\* What a call is to return, read off the mapping, the options and the flags
\* resolveRefs and returnNull, with no reference to logging: the fallback for
\* a key without a string and for a resolution the translator takes as
\* failed, else the interpolation of the literal found.
Expected ==
  IF key \notin DOMAIN translations \/ translations[key].t # "str"
    THEN MissingResult(key)
  ELSE IF IsRefKey(key) /\ Truthy(globalOptions.resolveRefs)
    THEN IF /\ HopsToLiteral(key, MAX_REF_DEPTH - 1) # -1
            /\ LiteralAfter(key, HopsToLiteral(key, MAX_REF_DEPTH - 1)) # key
           THEN Str(Subst(LiteralAfter(key, HopsToLiteral(key, MAX_REF_DEPTH - 1)), Bindings))
           ELSE MissingResult(key)
  ELSE Str(Subst(translations[key].s, Bindings))

\* C18: with warnings suppressed by the configuration, no sequence of
\* translate and scoped-translate calls (missing keys, broken, cyclic or
\* too-deep references, unbound placeholders) logs a warning, and every call
\* returns the value it returns with warnings enabled.
C18_SilentNoWarnings ==
  /\ ~Truthy(globalOptions.debug) => warnings = <<>>
  /\ pc = "done" => result = Expected

C18_Witness ==
  /\ pc = "done"
  /\ ~Truthy(globalOptions.debug) /\ Truthy(globalOptions.resolveRefs)
  /\ suffix = Str(Key(0))
  /\ MakesHops(key, MAX_REF_DEPTH + 1)
  /\ options = Bag(NKey :> Undefined)
  /\ warnings = <<>>
  /\ result = Str(key)

\* C19: the scoped translator adds nothing but the prefix: scope(M, ns, c)(s,
\* o) returns what createTranslator(M, c)(ns + "." + s, o) returns and logs
\* the same warnings; for a missing key the fallback text is the full key,
\* and reference targets are looked up as full keys, not prefixed with ns.
C19_ScopedIsPrefixed ==
  (pc = "done" /\ suffix.t = "str")
  => LET full == namespace \o <<".">> \o suffix.s
     IN  /\ key = full
         /\ result = translate(full, options).out
         /\ warnings = translate(full, options).warn
         /\ (full \notin DOMAIN translations /\ DefaultFallback) => result = Str(full)
         /\ (Truthy(globalOptions.resolveRefs) /\ IsRefKey(full)
               /\ HopsToLiteral(full, MAX_REF_DEPTH - 1) # -1
               /\ LiteralAfter(full, HopsToLiteral(full, MAX_REF_DEPTH - 1)) # full)
            => result = Str(Subst(LiteralAfter(full, HopsToLiteral(full, MAX_REF_DEPTH - 1)),
                                  Bindings))

C19_Witness ==
  /\ pc = "done" /\ Truthy(globalOptions.resolveRefs)
  /\ suffix = Str(AKey)
  /\ key = <<"u", ".", "a">>
  /\ key \in DOMAIN translations
  /\ translations[key] = Ref(GKey)
  /\ <<"u", ".", "g">> \in DOMAIN translations
  /\ result = Str(<<"F">>)

\* C20: the translation mapping is never written: whatever the calls, keys,
\* options and configuration, and whether they succeed or fail, the mapping
\* keeps the keys and values it had when the translator was created.
C20_MappingNeverWritten == [][translations' = translations]_vars

C20_Witness ==
  /\ pc = "done" /\ Truthy(globalOptions.resolveRefs)
  /\ suffix = Str(AKey)
  /\ translations = (<<"u", ".", "a">> :> Ref(GKey) @@ GKey :> Str(<<"F">>))
  /\ result = Str(<<"F">>)

\* ------------------------------------------------- repeated calls
\* One translator called again and again with the same few keys and options,
\* the history variable earlier recording what each call gave the first time.

RepeatMappings ==
  SmallMappings \cup { Chain(2, Str(<<"F">>)), Chain(2, Ref(Key(0))) }

RepeatConfigs == { c \in Configs : c.returnNull = "unset" }

RepeatKeys == { Key(0), PKey }

RepeatOptions == { NoOptions, Bag(NKey :> World) }

InitRepeat ==
  /\ translations \in RepeatMappings
  /\ globalOptions \in RepeatConfigs
  /\ pc = "idle"
  /\ key = <<>>
  /\ options = NoOptions
  /\ rkey = <<>>
  /\ originalKey = Undefined
  /\ visited = {}
  /\ depth = 0
  /\ result = Undefined
  /\ warnings = <<>>
  /\ namespace = <<>>
  /\ suffix = Undefined
  /\ OneCaller

\* a caller's translate(k, o), the call just finished going into the history
TranslateAgain(k, o) ==
  /\ translator(k, o)
  /\ suffix' = Undefined
  /\ earlier' = IF pc = "done" /\ <<key, passed>> \notin DOMAIN earlier
                  THEN earlier @@ (<<key, passed>> :> [out |-> result, warn |-> warnings])
                  ELSE earlier

NextRepeat ==
  \/ \E k \in RepeatKeys, o \in RepeatOptions : TranslateAgain(k, o)
  \/ ResolveRecurse
  \/ ResolveReturn

SpecRepeat == InitRepeat /\ [][NextRepeat]_vars

\* C21: no state is carried between calls: translate(key, options) repeated,
\* with any other calls in between, returns the same result and logs the
\* same warnings as the first time, and a resolution starts with an empty
\* visited set and depth 0 whatever the calls before it traversed.
C21_NoStateBetweenCalls ==
  /\ (pc = "done" /\ <<key, passed>> \in DOMAIN earlier)
       => earlier[<<key, passed>>] = [out |-> result, warn |-> warnings]
  /\ (pc = "resolving" /\ depth = 0) => (visited = {} /\ rkey = key /\ warnings = <<>>)

C21_Witness ==
  /\ pc = "done" /\ Truthy(globalOptions.resolveRefs)
  /\ translations = (Key(0) :> Str(<<"V">>) @@ PKey :> Ref(Key(0)))
  /\ key = PKey /\ passed = NoOptions
  /\ DOMAIN earlier = { <<PKey, NoOptions>>, <<Key(0), NoOptions>> }
  /\ result = Str(<<"V">>)
  /\ earlier[<<PKey, NoOptions>>].out = Str(<<"V">>)

\* C30: translate leaves the caller's options object as it was passed, on
\* every branch; the default-value entry is deleted from a copy only.
C30_OptionsUnchanged == pc \in {"resolving", "done"} => options = passed

C30_Witness ==
  /\ pc = "done"
  /\ passed = Bag(NKey :> World @@ DefaultKey :> DefaultText)
  /\ IsLiteralKey(key) /\ translations[key] = Str(Greeting)
  /\ result = Str(<<"H", "W">>)
  /\ DefaultKey \in DOMAIN options.bag

\* ------------------------------------------------- two calls in flight
\* A second translate call on the same translator, its locals in the frame
\* other, its resolver invocations taken in any order with those of the
\* first call.

ConcurrentMappings ==
  UNION { [D -> {Str(<<"V">>), Ref(Key(0))}] : D \in SUBSET {Key(0), PKey} }
    \cup { Chain(n, tail) : n \in 1..3,
                            tail \in {Str(<<"F">>), Ref(Key(0)), Ref(ZKey)} }

ConcurrentConfigs ==
  { c \in Configs : c.returnNull = "unset" /\ c.resolveRefs # "false" }

ConcurrentKeys == { Key(0), Key(1), PKey }

InitConcurrent ==
  /\ translations \in ConcurrentMappings
  /\ globalOptions \in ConcurrentConfigs
  /\ pc = "idle"
  /\ key = <<>>
  /\ options = NoOptions
  /\ rkey = <<>>
  /\ originalKey = Undefined
  /\ visited = {}
  /\ depth = 0
  /\ result = Undefined
  /\ warnings = <<>>
  /\ namespace = <<>>
  /\ suffix = Undefined
  /\ OneCaller

\* the second call's translate(k, o) up to its return or up to its call of
\* resolveValue(key)
OtherTranslate(k, o) ==
  /\ other.pc \in {"idle", "done"}
  /\ LET value == Get(translations, k)
     IN  other' =
           IF NeedsResolve(value)
             THEN [pc |-> "resolving", key |-> k, options |-> o, rkey |-> k,
                   originalKey |-> Undefined, visited |-> {}, depth |-> 0,
                   result |-> Undefined, warnings |-> <<>>]
             ELSE [pc |-> "done", key |-> k, options |-> o, rkey |-> <<>>,
                   originalKey |-> Undefined, visited |-> {}, depth |-> 0,
                   result |-> Finish(k, o, value).out,
                   warnings |-> Finish(k, o, value).warn]
  /\ UNCHANGED <<translations, globalOptions, pc, key, options, rkey, originalKey,
                 visited, depth, result, warnings, namespace, suffix,
                 passed, earlier, cycleDetection>>

\* a resolver whose visited set is one set that all calls add to
OtherRecurseShared ==
  /\ other.pc = "resolving"
  /\ LET r == resolveValue(other.rkey, other.originalKey,
                           other.visited \cup visited, other.depth)
     IN  /\ ~r.ret
         /\ other' = [other EXCEPT !.rkey = r.k, !.originalKey = r.orig,
                                   !.visited = r.vis, !.depth = r.d,
                                   !.warnings = @ \o r.warn]
  /\ UNCHANGED <<translations, globalOptions, pc, key, options, rkey, originalKey,
                 visited, depth, result, warnings, namespace, suffix,
                 passed, earlier, cycleDetection>>

\* one invocation of resolveValue of the second call that calls itself
OtherRecurse ==
  /\ other.pc = "resolving"
  /\ LET r == resolveValue(other.rkey, other.originalKey, other.visited, other.depth)
     IN  /\ ~r.ret
         /\ other' = [other EXCEPT !.rkey = r.k, !.originalKey = r.orig,
                                   !.visited = r.vis, !.depth = r.d,
                                   !.warnings = @ \o r.warn]
  /\ UNCHANGED <<translations, globalOptions, pc, key, options, rkey, originalKey,
                 visited, depth, result, warnings, namespace, suffix,
                 passed, earlier, cycleDetection>>

\* the invocation of resolveValue of the second call that returns, and the
\* rest of its translate
OtherReturn ==
  /\ other.pc = "resolving"
  /\ LET r == resolveValue(other.rkey, other.originalKey, other.visited, other.depth)
         f == Finish(other.key, other.options, FromResolved(r.val, other.key))
     IN  /\ r.ret
         /\ other' = [other EXCEPT !.pc = "done", !.rkey = <<>>,
                                   !.originalKey = Undefined, !.visited = {},
                                   !.depth = 0, !.result = f.out,
                                   !.warnings = @ \o r.warn \o f.warn]
  /\ UNCHANGED <<translations, globalOptions, pc, key, options, rkey, originalKey,
                 visited, depth, result, warnings, namespace, suffix,
                 passed, earlier, cycleDetection>>

NextConcurrent ==
  \/ \E k \in ConcurrentKeys, o \in RepeatOptions : Translate(k, o)
  \/ ResolveRecurse
  \/ ResolveReturn
  \/ \E k \in ConcurrentKeys, o \in RepeatOptions : OtherTranslate(k, o)
  \/ OtherRecurse
  \/ OtherReturn

SpecConcurrent == InitConcurrent /\ [][NextConcurrent]_vars

\* C22: of two translate calls on one mapping whose resolver steps are taken
\* in any order, each returns, and logs, what it does when run alone; no
\* order makes a call fail, succeed or report a cycle because of the keys
\* the other call traversed.
C22_InterleavedLikeAlone ==
  /\ pc = "done"
       => /\ result = translate(key, passed).out
          /\ warnings = translate(key, passed).warn
  /\ other.pc = "done"
       => /\ other.result = translate(other.key, other.options).out
          /\ other.warnings = translate(other.key, other.options).warn

C22_Witness ==
  /\ Truthy(globalOptions.resolveRefs)
  /\ translations = Chain(2, Str(<<"F">>))
  /\ pc = "resolving" /\ key = Key(0) /\ visited = {Key(0), Key(1)}
  /\ other.pc = "done" /\ other.key = Key(0) /\ other.result = Str(<<"F">>)

\* ------------------------------------------------- termination
\* The translator with and without the visited check, over cyclic, broken
\* and long chains; a call that has started runs on to its return.

TerminationMappings ==
  ChainMappings
    \cup UNION { [D -> {Str(<<"V">>), Ref(Key(0)), Ref(PKey)}] : D \in SUBSET {Key(0), PKey} }

TerminationConfigs ==
  { c \in Configs : c.returnNull = "unset" /\ c.resolveRefs = "true" }

InitTermination ==
  /\ translations \in TerminationMappings
  /\ globalOptions \in TerminationConfigs
  /\ pc = "idle"
  /\ key = <<>>
  /\ options = NoOptions
  /\ rkey = <<>>
  /\ originalKey = Undefined
  /\ visited = {}
  /\ depth = 0
  /\ result = Undefined
  /\ warnings = <<>>
  /\ namespace = <<>>
  /\ suffix = Undefined
  /\ passed = NoOptions
  /\ earlier = <<>>
  /\ other = IdleFrame
  /\ cycleDetection \in BOOLEAN

NextTermination ==
  \/ \E k \in RepeatKeys, o \in RepeatOptions : Translate(k, o)
  \/ ResolveRecurse
  \/ ResolveReturn

\* translate is synchronous: an invocation of resolveValue that has been
\* entered runs
SpecTermination ==
  /\ InitTermination
  /\ [][NextTermination]_vars
  /\ WF_vars(ResolveRecurse)
  /\ WF_vars(ResolveReturn)

\* C23: every translate call terminates, for cyclic and arbitrarily long
\* chains too: a resolution is inside resolveValue at depth 10 at most (10
\* hops, 11 invocations) and then returns, with the visited check and
\* without it.
C23_Terminates ==
  /\ [](pc = "resolving" => depth <= MAX_REF_DEPTH /\ Cardinality(visited) <= MAX_REF_DEPTH)
  /\ (pc = "resolving") ~> (pc = "done")

C23_Witness ==
  /\ pc = "done"
  /\ ~cycleDetection
  /\ Truthy(globalOptions.debug)
  /\ translations = Chain(2, Ref(Key(0)))
  /\ key = Key(0)
  /\ HasWarning("maxDepth")
  /\ result = Str(Key(0))

\* ------------------------------------------------- cycles and the bound
\* the keys the chain from k passes before the key d hops away
KeysBefore(k, d) == { KeyAfter(k, i) : i \in 0..(d - 1) }

\* for a chain that enters a cycle: the number of hops from k to the first
\* key whose reference goes back to a key passed before it
CycleClosesAt(k) ==
  CHOOSE d \in 0..(Cardinality(DOMAIN translations) + 1) :
    /\ TargetOf(KeyAfter(k, d)) \in KeysBefore(k, d)
    /\ \A e \in 0..(d - 1) : TargetOf(KeyAfter(k, e)) \notin KeysBefore(k, e)

\* C24 as stated: every chain that contains a cycle, whatever the length of
\* the cycle and of the way into it, fails with the circular-reference
\* warning, and the depth-exceeded warning is never the one logged for it.
C24_CycleBeforeDepth ==
  (DoneResolving /\ Truthy(globalOptions.debug) /\ IsRefKey(key) /\ EntersCycle(key))
  => HasWarning("circular") /\ ~HasWarning("maxDepth")

\* C24 amended: a chain that contains a cycle fails with the
\* circular-reference warning, and without the depth-exceeded warning, when
\* the reference that goes back to a key already passed is held by a key
\* fewer than 10 hops from the requested key; a longer cyclic chain fails on
\* the depth bound, with the depth-exceeded warning and no circular one.
C24_CycleWithinDepth ==
  (DoneResolving /\ Truthy(globalOptions.debug) /\ IsRefKey(key) /\ EntersCycle(key))
  => IF CycleClosesAt(key) < MAX_REF_DEPTH
       THEN HasWarning("circular") /\ ~HasWarning("maxDepth")
       ELSE HasWarning("maxDepth") /\ ~HasWarning("circular")

C24_Witness ==
  /\ DoneResolving /\ Truthy(globalOptions.debug)
  /\ translations = Chain(MAX_REF_DEPTH - 1, Ref(Key(4)))
  /\ key = Key(0)
  /\ EntersCycle(key) /\ CycleClosesAt(key) = MAX_REF_DEPTH - 1
  /\ HasWarning("circular") /\ ~HasWarning("maxDepth")

\* ------------------------------------------------- the fallback text
\* the finished call took the not-found branch: the key has no string, or
\* its resolution failed
TookFallback ==
  /\ pc = "done"
  /\ \/ key \notin DOMAIN translations
     \/ translations[key].t # "str"
     \/ Truthy(globalOptions.resolveRefs) /\ IsRefKey(key) /\ ChainFails(key)

\* C25 as stated: on failure or not-found, the string the fallback policy
\* gives (the default value or the key text) is interpolated with the call's
\* options before translate returns it; only a null fallback is not.
C25_FallbackInterpolated ==
  TookFallback
  => IF MissingResult(key).t = "str"
       THEN result = Str(Subst(MissingResult(key).s, Bindings))
       ELSE result = MissingResult(key)

\* C25 amended: on failure or not-found, what the fallback policy gives (the
\* default value, null or the key text) is returned as it is: it does not
\* pass through placeholder interpolation, and no placeholder warning is
\* logged for it.
C25_FallbackAsIs ==
  TookFallback
  => /\ result = MissingResult(key)
     /\ ~HasWarning("notInOptions")
     /\ ~HasWarning("undefinedValue")

C25_Witness ==
  /\ pc = "done"
  /\ key = PKey /\ key \notin DOMAIN translations
  /\ passed = Bag(NKey :> World)
  /\ Truthy(globalOptions.debug)
  /\ result = Str(PKey)
  /\ HasWarning("usingKey")

\* ------------------------------------------------- resolver diagnostics
ResolverKinds == {"emptyTarget", "circular", "targetNotFound", "maxDepth"}

NotFoundKinds == {"usingDefault", "returningNull", "usingKey"}

\* a finished call with warnings on whose chain reaches no literal within
\* the depth bound: its resolution failed
FailedWithWarnings ==
  /\ DoneResolving /\ Truthy(globalOptions.debug)
  /\ IsRefKey(key)
  /\ HopsToLiteral(key, MAX_REF_DEPTH) = -1

\* C26: with warnings on, a failed resolution logs exactly one resolver
\* warning (empty target, circular, target not found or depth exceeded) and
\* logs it before the translator's not-found warning of the call; the
\* resolver's silent failure branch (the current key holds no string) is
\* never taken in a translate call.
C26_OneResolverDiagnostic ==
  /\ FailedWithWarnings
       => /\ Len(warnings) = 2
          /\ warnings[1].w \in ResolverKinds
          /\ warnings[2].w \in NotFoundKinds
  /\ (pc = "resolving" /\ ~DepthExceeded(depth)) => Get(translations, rkey).t = "str"

\* What the resolver is to log for the chain that is at key c after d hops,
\* having passed the keys before: the warning of the first failure on the
\* way, naming the key the failure is found at; <<>> when the chain ends
\* without one.
RECURSIVE Diagnostic(_, _, _)
Diagnostic(c, before, d) ==
  IF d >= MAX_REF_DEPTH THEN << [w |-> "maxDepth", a |-> c, b |-> <<>>] >>
  ELSE IF ~IsRefKey(c) THEN <<>>
  ELSE IF TargetOf(c) = <<>> THEN << [w |-> "emptyTarget", a |-> c, b |-> <<>>] >>
  ELSE IF TargetOf(c) \in before
    THEN << [w |-> "circular", a |-> c, b |-> TargetOf(c)] >>
  ELSE IF TargetOf(c) \notin DOMAIN translations
    THEN << [w |-> "targetNotFound", a |-> TargetOf(c), b |-> c] >>
  ELSE Diagnostic(TargetOf(c), before \cup {c}, d + 1)

\* the finished call logged a resolver warning
LoggedResolverWarning ==
  /\ DoneResolving /\ IsRefKey(key)
  /\ \E i \in 1..Len(warnings) : warnings[i].w \in ResolverKinds

\* C27: a resolver warning names the key of the hop at which the failure is
\* found, not the requested key: circular is current -> target, target not
\* found and empty target name the key that holds the bad reference, depth
\* exceeded names the key reached at depth 10; the failure still carries the
\* requested key, which is what translate falls back to.
C27_DiagnosticNamesCurrentKey ==
  LoggedResolverWarning
  => /\ SubSeq(warnings, 1, 1) = Diagnostic(key, {}, 0)
     /\ \A i \in 2..Len(warnings) : warnings[i].w \in NotFoundKinds /\ warnings[i].a = key
     /\ DefaultFallback => result = Str(key)

C27_Witness ==
  /\ LoggedResolverWarning
  /\ translations = Chain(1, Ref(Key(0)))
  /\ key = Key(0)
  /\ warnings[1] = [w |-> "circular", a |-> Key(1), b |-> Key(0)]
  /\ result = Str(Key(0))

\* C28: at every invocation of resolveValue the visited set holds exactly the
\* keys passed before the current key in this call: it has as many keys as
\* the depth counter says, each a key of the mapping; the depth counter is
\* at most 10; and the original key handed on is the requested key
\* throughout.
C28_VisitedIsPrefix ==
  pc = "resolving"
  => /\ visited = KeysBefore(key, depth)
     /\ rkey = KeyAfter(key, depth)
     /\ Cardinality(visited) = depth
     /\ visited \subseteq DOMAIN translations
     /\ depth <= MAX_REF_DEPTH
     /\ RootKey(rkey, originalKey) = key
     /\ depth > 0 => originalKey = Str(key)

C28_Witness ==
  /\ pc = "resolving"
  /\ translations = Chain(MaxChain, Str(<<"F">>))
  /\ key = Key(0)
  /\ depth = MAX_REF_DEPTH
  /\ rkey = Key(MAX_REF_DEPTH)
  /\ Cardinality(visited) = MAX_REF_DEPTH

\* C29: alias transparency: with reference resolution on, when the key holds
\* "$ref:t" and its chain reaches a literal within the depth bound,
\* translate(key, o) returns what translate(t, o) returns, for every options
\* bag and configuration.
C29_AliasTransparent ==
  (DoneResolving /\ IsRefKey(key) /\ HopsToLiteral(key, MAX_REF_DEPTH) # -1)
  => result = translate(TargetOf(key), passed).out
====
